---------------------------- MODULE Spec2Model ----------------------------
(***************************************************************************)
(* Detection post-processing of sspr-odboost (src/utils.py): merging two   *)
(* annotation folders, non-maximum suppression over a folder, rendering    *)
(* boxes onto images.                                                      *)
(*                                                                         *)
(* Text is modelled at token level.  A line of an annotation file is a     *)
(* sequence of elements, each a whitespace run (SP) or a token.  A token   *)
(* [k, v] is the spelling of a number: k = "int" is a digit string ("3"),  *)
(* k = "flt" is the spelling Python's str() gives a float ("3.0"), k =     *)
(* "exp" is any other float spelling ("3e0", "3.00"), k = "bad" is not a   *)
(* number.  v is the number, in grid units (coordinates) or confidence     *)
(* units (scores); the arithmetic on them is exact.                        *)
(***************************************************************************)
EXTENDS Integers, Sequences, FiniteSets

VARIABLES
    \* merge_files_from_folders
    folder1_path, folder2_path, merged_folder_path, change_conf,
    mergePc, mergePending,
    \* apply_nms_to_folder
    folder_path, output_folder_path, score_threshold, nms_threshold,
    nmsPending, nmsStatus, nmsError, indices, runs,
    \* apply_bboxes_to_images
    image_folder, bbox_folder, output_folder,
    renderPending, renderStatus, renderError

mergeVars == <<folder1_path, folder2_path, merged_folder_path, change_conf,
               mergePc, mergePending>>
nmsVars == <<folder_path, output_folder_path, score_threshold, nms_threshold,
             nmsPending, nmsStatus, nmsError, indices, runs>>
renderVars == <<image_folder, bbox_folder, output_folder,
                renderPending, renderStatus, renderError>>
vars == <<mergeVars, nmsVars, renderVars>>

----------------------------------------------------------------------------
(* Bounds *)

\* Lines per annotation file in the suppression study.
MaxBoxes == 3
\* Lines per annotation file in the batch runs (suppression, rendering).
MaxBatchLines == 2
\* Lines per annotation file in the merge runs.
MaxMergeLines == 2
\* Calls of apply_nms_to_folder in a row (the second reads the first's output).
MaxRuns == 2

----------------------------------------------------------------------------
(* Text: tokens, lines, files, directories *)

Tok(k, v) == [k |-> k, v |-> v]
SP == Tok("sp", 0)

RECURSIVE SeqsUpTo(_, _)
\* All sequences over S of length at most n.
SeqsUpTo(S, n) ==
    IF n = 0 THEN {<<>>}
    ELSE LET shorter == SeqsUpTo(S, n - 1)
         IN  shorter \cup {Append(s, x) : s \in {t \in shorter : Len(t) = n - 1}, x \in S}

\* str.split() with no argument: the tokens of a line, whitespace dropped
\* (leading and trailing whitespace included, so strip() before it adds nothing).
Split(line) == SelectSeq(line, LAMBDA e : e.k # "sp")

RECURSIVE Join(_)
\* ' '.join(columns): single spaces between the tokens.
Join(columns) ==
    IF Len(columns) <= 1 THEN columns
    ELSE <<Head(columns), SP>> \o Join(Tail(columns))

\* A directory entry is a file name: its base and its extension.
Entry(base, ext) == [base |-> base, ext |-> ext]
\* file_name.endswith('.txt')
EndsWithTxt(e) == e.ext = "txt"
\* os.listdir(folder): the names of a directory, modelled as a function
\* from the names present to the files' contents.
ListDir(folder) == DOMAIN folder
\* open(path, 'w') ... write(data): the directory with the file (re)written.
WriteFile(folder, e, data) ==
    [x \in DOMAIN folder \cup {e} |-> IF x = e THEN data ELSE folder[x]]
\* open(path, 'a') ... write(...): the directory with lines appended to the
\* file, created empty if it is not there.
AppendFile(folder, e, lines) ==
    [x \in DOMAIN folder \cup {e} |->
        IF x = e THEN (IF e \in DOMAIN folder THEN folder[e] ELSE <<>>) \o lines
        ELSE folder[x]]
EmptyDir == [x \in {} |-> <<>>]

\* str(x) of an int and of a float.
StrInt(v) == Tok("int", v)
StrFloat(v) == Tok("flt", v)
\* int(s) accepts digit strings only; float(s) any spelling of a number.
IntOk(t) == t.k = "int"
FloatOk(t) == t.k \in {"int", "flt", "exp"}

----------------------------------------------------------------------------
(* parse_boxes_from_txt *)

RECURSIVE FieldError(_, _)
\* The exception raised from field i on: values[i] of a split too short raises
\* IndexError, int() (field 1) or float() (fields 2..6) of an unparseable token
\* raises ValueError, in the order lines 78-83 evaluate them.
FieldError(values, i) ==
    IF i > 6 THEN "none"
    ELSE IF i > Len(values) THEN "IndexError"
    ELSE IF ~(IF i = 1 THEN IntOk(values[i]) ELSE FloatOk(values[i])) THEN "ValueError"
    ELSE FieldError(values, i + 1)

\* The exception one line raises, "none" if it parses.  Tokens after the
\* sixth are never read.
LineError(line) == FieldError(Split(line), 1)

\* box = [class_index, x_center, y_center, width, height, confidence]
LineBox(line) ==
    LET values == Split(line) IN [i \in 1..6 |-> values[i].v]

\* The first line that raises, 0 if none does.
FirstBadLine(file) ==
    IF \E i \in 1..Len(file) : LineError(file[i]) # "none"
    THEN CHOOSE i \in 1..Len(file) :
            /\ LineError(file[i]) # "none"
            /\ \A j \in 1..(i - 1) : LineError(file[j]) = "none"
    ELSE 0

\* The result of parse_boxes_from_txt: the boxes, or the exception raised.
parse_boxes_from_txt(file) ==
    LET bad == FirstBadLine(file) IN
    IF bad # 0
    THEN [err |-> LineError(file[bad]), line |-> bad, boxes |-> <<>>]
    ELSE [err |-> "none", line |-> 0,
          boxes |-> [i \in 1..Len(file) |-> LineBox(file[i])]]

----------------------------------------------------------------------------
(* cv2.dnn.NMSBoxes, as OpenCV implements it (dnn/src/nms.cpp, nms.inl.hpp, *)
(* core/types.hpp): called at line 118 with eta = 1 and top_k = 0.          *)

Max(a, b) == IF a >= b THEN a ELSE b
Min(a, b) == IF a <= b THEN a ELSE b

\* A Rect2d from a list of four numbers: (x, y, width, height).
Rect(b) == [x |-> b[1], y |-> b[2], w |-> b[3], h |-> b[4]]
Area(r) == r.w * r.h
\* Rect_ operator &: the area of the intersection, 0 when it is empty.
InterArea(a, b) ==
    LET x1 == Max(a.x, b.x)
        y1 == Max(a.y, b.y)
        iw == Min(a.x + a.w, b.x + b.w) - x1
        ih == Min(a.y + a.h, b.y + b.h) - y1
    IN  IF iw <= 0 \/ ih <= 0 THEN 0 ELSE iw * ih

\* rectOverlap(a, b) <= nms_threshold, with rectOverlap = 1 - jaccardDistance:
\* two rectangles of no area are at distance 0 (overlap 1); otherwise the
\* overlap is inter / (area a + area b - inter).  thr is <<numerator, denominator>>.
OverlapAtMost(a, b, thr) ==
    IF Area(a) + Area(b) <= 0
    THEN thr[2] <= thr[1]
    ELSE InterArea(a, b) * thr[2] <= thr[1] * (Area(a) + Area(b) - InterArea(a, b))

\* keep = overlap <= adaptive_threshold
KeepWith(a, b, thr) == OverlapAtMost(a, b, thr)

\* Faulty variant of ScorePasses: every score at or above the threshold passes.
ScorePassesInclusive(score, threshold) == score >= threshold

\* if (scores[i] > threshold)
ScorePasses(score, threshold) == score > threshold

RECURSIVE InsertDescUnstable(_, _, _)
\* Faulty variant of InsertDesc: an index goes in front of the indices of
\* equal score.
InsertDescUnstable(sorted, i, scores) ==
    IF sorted = <<>> THEN <<i>>
    ELSE IF scores[Head(sorted)] > scores[i]
         THEN <<Head(sorted)>> \o InsertDescUnstable(Tail(sorted), i, scores)
         ELSE <<i>> \o sorted

RECURSIVE InsertDesc(_, _, _)
\* std::stable_sort with SortScorePairDescend (pair1.first > pair2.first):
\* an index goes behind every index of higher or equal score.
InsertDesc(sorted, i, scores) ==
    IF sorted = <<>> THEN <<i>>
    ELSE IF scores[Head(sorted)] >= scores[i]
         THEN <<Head(sorted)>> \o InsertDesc(Tail(sorted), i, scores)
         ELSE <<i>> \o sorted

RECURSIVE GetMaxScoreIndexFrom(_, _, _, _)
GetMaxScoreIndexFrom(scores, threshold, i, acc) ==
    IF i > Len(scores) THEN acc
    ELSE GetMaxScoreIndexFrom(scores, threshold, i + 1,
            IF ScorePasses(scores[i], threshold)
            THEN InsertDesc(acc, i, scores) ELSE acc)

\* GetMaxScoreIndex: the indices whose score passes, by descending score,
\* equal scores in input order.
GetMaxScoreIndex(scores, threshold) == GetMaxScoreIndexFrom(scores, threshold, 1, <<>>)

RECURSIVE NMSFast(_, _, _, _)
\* The loop of NMSFast_: the next index of the order is kept when its
\* overlap with every index kept so far is at most the threshold.
NMSFast(order, kept, bboxes, thr) ==
    IF order = <<>> THEN kept
    ELSE LET idx == Head(order)
             keep == \A k \in 1..Len(kept) :
                        KeepWith(Rect(bboxes[idx]), Rect(bboxes[kept[k]]), thr)
         IN  NMSFast(Tail(order), IF keep THEN Append(kept, idx) ELSE kept, bboxes, thr)

NMSBoxes(bboxes, scores, score_thr, nms_thr) ==
    NMSFast(GetMaxScoreIndex(scores, score_thr), <<>>, bboxes, nms_thr)

----------------------------------------------------------------------------
(* apply_nms_to_folder *)

NoError == [type |-> "none", file |-> Entry("", ""), line |-> 0]
NoIndices == [x \in {} |-> <<>>]

\* bounding_boxes = [[x1, y1, x2, y2] for _, x1, y1, x2, y2, _ in boxes]:
\* fields 2..5 of each box as they are (x_center, y_center, width, height).
bounding_boxes(boxes) ==
    [i \in 1..Len(boxes) |-> <<boxes[i][2], boxes[i][3], boxes[i][4], boxes[i][5]>>]
\* confidence_scores = [confidence for _, _, _, _, _, confidence in boxes]
confidence_scores(boxes) == [i \in 1..Len(boxes) |-> boxes[i][6]]

\* Faulty variant of FormatBox: class_index is written as a float is ("0.0").
FormatBoxAllFloats(bbox) ==
    Join(<<StrFloat(bbox[1]), StrFloat(bbox[2]), StrFloat(bbox[3]),
           StrFloat(bbox[4]), StrFloat(bbox[5]), StrFloat(bbox[6])>>)

\* " ".join(map(str, bbox)): class_index is an int, the other five are floats.
FormatBox(bbox) ==
    Join(<<StrInt(bbox[1]), StrFloat(bbox[2]), StrFloat(bbox[3]),
           StrFloat(bbox[4]), StrFloat(bbox[5]), StrFloat(bbox[6])>>)

\* formatted_data: one line per filtered detection, in the order of indices.
formatted_data(boxes, idx) == [k \in 1..Len(idx) |-> FormatBox(boxes[idx[k]])]

\* Faulty variant of AnyIndices: the output file is written whatever
\* NMSBoxes returned.
AlwaysWrite(idx) == TRUE

\* if len(indices) > 0
AnyIndices(idx) == Len(idx) > 0

\* One iteration of the loop of line 106 over a name of os.listdir: a name
\* that does not end in .txt is passed over; a file that does not parse
\* raises out of the function; otherwise NMSBoxes runs and, when it returns
\* any index, the filtered detections are written to the output folder.
NmsFile(e) ==
    /\ nmsStatus = "running"
    /\ e \in nmsPending
    /\ IF ~EndsWithTxt(e)
       THEN /\ nmsPending' = nmsPending \ {e}
            /\ UNCHANGED <<output_folder_path, nmsStatus, nmsError, indices>>
       ELSE LET r == parse_boxes_from_txt(folder_path[e])
                idx == NMSBoxes(bounding_boxes(r.boxes), confidence_scores(r.boxes),
                                score_threshold, nms_threshold)
            IN  IF r.err # "none"
                THEN /\ nmsStatus' = "raised"
                     /\ nmsError' = [type |-> r.err, file |-> e, line |-> r.line]
                     /\ UNCHANGED <<output_folder_path, nmsPending, indices>>
                ELSE /\ indices' = [x \in DOMAIN indices \cup {e} |->
                                        IF x = e THEN idx ELSE indices[x]]
                     /\ output_folder_path' =
                            IF AnyIndices(idx)
                            THEN WriteFile(output_folder_path, e, formatted_data(r.boxes, idx))
                            ELSE output_folder_path
                     /\ nmsPending' = nmsPending \ {e}
                     /\ UNCHANGED <<nmsStatus, nmsError>>
    /\ UNCHANGED <<folder_path, score_threshold, nms_threshold, runs>>
    /\ UNCHANGED <<mergeVars, renderVars>>

\* The loop has gone through every name: the function returns.
NmsReturn ==
    /\ nmsStatus = "running"
    /\ nmsPending = {}
    /\ nmsStatus' = "returned"
    /\ UNCHANGED <<folder_path, output_folder_path, score_threshold, nms_threshold,
                   nmsPending, nmsError, indices, runs>>
    /\ UNCHANGED <<mergeVars, renderVars>>

\* The caller applies apply_nms_to_folder, with the same thresholds, to the
\* folder the last call wrote (which exists once a file was written to it),
\* writing to a fresh folder.
NmsAgain ==
    /\ nmsStatus = "returned"
    /\ runs < MaxRuns
    /\ ListDir(output_folder_path) # {}
    /\ folder_path' = output_folder_path
    /\ output_folder_path' = EmptyDir
    /\ nmsPending' = ListDir(output_folder_path)
    /\ nmsStatus' = "running"
    /\ indices' = NoIndices
    /\ runs' = runs + 1
    /\ UNCHANGED <<score_threshold, nms_threshold, nmsError>>
    /\ UNCHANGED <<mergeVars, renderVars>>

NextNms == (\E e \in nmsPending : NmsFile(e)) \/ NmsReturn \/ NmsAgain

----------------------------------------------------------------------------
(* write_file_into_folder, merge_files_from_folders *)

\* The truth value of change_conf: 0 and 0.0 are false (no change).
Truthy(conf) == conf.v # 0

\* Lines 35-41: the line is split into columns; when there is a column and
\* change_conf is true, the last column becomes str(change_conf) (change_conf
\* is held as the token str() gives it); the columns are joined by single
\* spaces.
MergeLine(line, conf) ==
    LET columns == Split(line) IN
    Join(IF Len(columns) > 0 /\ Truthy(conf)
         THEN [columns EXCEPT ![Len(columns)] = conf]
         ELSE columns)

\* One iteration of the loop of line 28: a name that ends in .txt has its
\* lines appended, each through MergeLine, to the file of the same base name
\* in to_folder; any other name is passed over.
write_file_into_folder(from_folder, to_folder, e, conf) ==
    IF EndsWithTxt(e)
    THEN AppendFile(to_folder, Entry(e.base, "txt"),
                    [i \in 1..Len(from_folder[e]) |-> MergeLine(from_folder[e][i], conf)])
    ELSE to_folder

\* Faulty variant of FirstPassConf: the first folder is written with
\* change_conf too.
FirstPassConfSame == change_conf

\* Line 65: the first call leaves change_conf at its default, 0.
FirstPassConf == StrInt(0)

\* An iteration of the first call (folder1_path, line 65).
MergeWrite1(e) ==
    /\ mergePc = "pass1"
    /\ e \in mergePending
    /\ merged_folder_path' =
          write_file_into_folder(folder1_path, merged_folder_path, e, FirstPassConf)
    /\ mergePending' = mergePending \ {e}
    /\ UNCHANGED <<folder1_path, folder2_path, change_conf, mergePc>>
    /\ UNCHANGED <<nmsVars, renderVars>>

\* The first call returns and the second (folder2_path, line 68) begins.
MergeSecondCall ==
    /\ mergePc = "pass1"
    /\ mergePending = {}
    /\ mergePc' = "pass2"
    /\ mergePending' = ListDir(folder2_path)
    /\ UNCHANGED <<folder1_path, folder2_path, merged_folder_path, change_conf>>
    /\ UNCHANGED <<nmsVars, renderVars>>

\* An iteration of the second call, with change_conf.
MergeWrite2(e) ==
    /\ mergePc = "pass2"
    /\ e \in mergePending
    /\ merged_folder_path' =
          write_file_into_folder(folder2_path, merged_folder_path, e, change_conf)
    /\ mergePending' = mergePending \ {e}
    /\ UNCHANGED <<folder1_path, folder2_path, change_conf, mergePc>>
    /\ UNCHANGED <<nmsVars, renderVars>>

\* merge_files_from_folders returns.
MergeReturn ==
    /\ mergePc = "pass2"
    /\ mergePending = {}
    /\ mergePc' = "done"
    /\ UNCHANGED <<folder1_path, folder2_path, merged_folder_path, change_conf,
                   mergePending>>
    /\ UNCHANGED <<nmsVars, renderVars>>

NextMerge ==
    \/ \E e \in mergePending : MergeWrite1(e)
    \/ MergeSecondCall
    \/ \E e \in mergePending : MergeWrite2(e)
    \/ MergeReturn

----------------------------------------------------------------------------
(* append_bboxes_to_image2, apply_bboxes_to_images *)

\* color_map.get(class_index, (255, 255, 255)) of append_bboxes_to_image2.
color_map(class_index) ==
    CASE class_index = 0 -> <<0, 255, 0>>
      [] class_index = 1 -> <<255, 0, 0>>
      [] class_index = 3 -> <<0, 0, 255>>
      [] class_index = 2 -> <<255, 255, 0>>
      [] class_index = 4 -> <<0, 255, 255>>
      [] class_index = 5 -> <<150, 0, 255>>
      [] OTHER -> <<255, 255, 255>>

\* class_map.get(class_index) of append_bboxes_to_image2: None when absent.
class_map(class_index) ==
    CASE class_index = 0 -> "Abnormal bunch"
      [] class_index = 1 -> "Damaged bunch"
      [] class_index = 2 -> "Overripe bunch"
      [] class_index = 3 -> "Ripe bunch"
      [] class_index = 4 -> "Unripe bunch"
      [] class_index = 5 -> "Empty bunch"
      [] OTHER -> "None"

\* int(): truncation toward zero of n / d.
TruncDiv(n, d) == IF n >= 0 THEN n \div d ELSE -((-n) \div d)

\* What one box draws: the rectangle's corners in pixels, its color, its
\* label.  A grid unit is a quarter of the image: int((x_center - width / 2)
\* * image.shape[1]) is (2 x - w) * shape[1] / 8, truncated.
DrawBox(bbox, shape) ==
    [x_min |-> TruncDiv((2 * bbox[2] - bbox[4]) * shape[2], 8),
     y_min |-> TruncDiv((2 * bbox[3] - bbox[5]) * shape[1], 8),
     x_max |-> TruncDiv((2 * bbox[2] + bbox[4]) * shape[2], 8),
     y_max |-> TruncDiv((2 * bbox[3] + bbox[5]) * shape[1], 8),
     color |-> color_map(bbox[1]),
     text |-> <<class_map(bbox[1]), bbox[6]>>]

\* What append_bboxes_to_image2 does with the image cv2.imread gave it, None
\* (found FALSE) when there is no file at image_path: the first box reads
\* image.shape, an AttributeError on None; with no box, cv2.imwrite is given
\* None and raises cv2.error; otherwise the image is written with the boxes
\* drawn on it.
append_bboxes_to_image2(found, image, bounding_boxes_) ==
    IF ~found
    THEN [err |-> IF Len(bounding_boxes_) > 0 THEN "AttributeError" ELSE "cv2.error",
          image |-> [shape |-> <<0, 0>>, drawn |-> <<>>]]
    ELSE [err |-> "none",
          image |-> [shape |-> image.shape,
                     drawn |-> image.drawn \o
                        [i \in 1..Len(bounding_boxes_) |->
                            DrawBox(bounding_boxes_[i], image.shape)]]]

NoImage == [shape |-> <<0, 0>>, drawn |-> <<>>]

\* One iteration of the loop of line 288.
RenderFile(e) ==
    /\ renderStatus = "running"
    /\ e \in renderPending
    /\ IF ~EndsWithTxt(e)
       THEN /\ renderPending' = renderPending \ {e}
            /\ UNCHANGED <<output_folder, renderStatus, renderError>>
       ELSE LET image_path == Entry(e.base, "jpg")
                found == image_path \in DOMAIN image_folder
                bboxes == parse_boxes_from_txt(bbox_folder[e])
                r == append_bboxes_to_image2(found,
                        IF found THEN image_folder[image_path] ELSE NoImage,
                        bboxes.boxes)
            IN  IF bboxes.err # "none"
                THEN /\ renderStatus' = "raised"
                     /\ renderError' = [type |-> bboxes.err, file |-> e, line |-> bboxes.line]
                     /\ UNCHANGED <<output_folder, renderPending>>
                ELSE IF r.err # "none"
                THEN /\ renderStatus' = "raised"
                     /\ renderError' = [type |-> r.err, file |-> e, line |-> 0]
                     /\ UNCHANGED <<output_folder, renderPending>>
                ELSE /\ output_folder' = WriteFile(output_folder, image_path, r.image)
                     /\ renderPending' = renderPending \ {e}
                     /\ UNCHANGED <<renderStatus, renderError>>
    /\ UNCHANGED <<image_folder, bbox_folder>>
    /\ UNCHANGED <<mergeVars, nmsVars>>

\* The loop has gone through every name: the function returns.
RenderReturn ==
    /\ renderStatus = "running"
    /\ renderPending = {}
    /\ renderStatus' = "returned"
    /\ UNCHANGED <<image_folder, bbox_folder, output_folder, renderPending, renderError>>
    /\ UNCHANGED <<mergeVars, nmsVars>>

NextRender == (\E e \in renderPending : RenderFile(e)) \/ RenderReturn

----------------------------------------------------------------------------
(* Inputs *)

\* A well-formed line as a detector writes it: six tokens, single spaces.
BoxLine(c, x, y, w, h, s) ==
    Join(<<StrInt(c), StrFloat(x), StrFloat(y), StrFloat(w), StrFloat(h), StrFloat(s)>>)

\* The same record as BoxLine(1, 0, 0, 2, 2, 3) in another hand: padded with
\* whitespace, floats spelled otherwise.
OddLine ==
    <<SP, StrInt(1), SP, Tok("exp", 0), SP, Tok("int", 0), SP, Tok("exp", 2),
      SP, Tok("flt", 2), SP, Tok("exp", 3), SP>>

ScoreThresholds == {1, 2}
\* nms_threshold as <<numerator, denominator>>: 1/2 (the default) and 1/3.
NmsThresholds == {<<1, 2>>, <<1, 3>>}

\* Geometries <<x_center, width>> of the suppression study (y_center 0,
\* height 2): as NMSBoxes takes them, [0,2] and [1,3], [1,3] and [2,4] overlap
\* by a third, [2,4] and [2,6] by a half, [1,3] and [2,6] by a fifth, the
\* others not at all.
Geometries == {<<0, 2>>, <<1, 2>>, <<2, 2>>, <<2, 4>>}
Confidences == {1, 2, 3}

\* Every geometry at every confidence as a detector writes it, but for one
\* record, which comes in the other hand.
SuppressLines ==
    ({BoxLine(0, g[1], 0, g[2], 2, s) : g \in Geometries, s \in Confidences}
        \ {BoxLine(0, 0, 0, 2, 2, 3)}) \cup {OddLine}

Img1 == Entry("img1", "txt")
Img2 == Entry("img2", "txt")
Img1Jpg == Entry("img1", "jpg")
Img2Jpg == Entry("img2", "jpg")

MergeIdle ==
    /\ folder1_path = EmptyDir
    /\ folder2_path = EmptyDir
    /\ merged_folder_path = EmptyDir
    /\ change_conf = StrInt(0)
    /\ mergePc = "done"
    /\ mergePending = {}

RenderIdle ==
    /\ image_folder = EmptyDir
    /\ bbox_folder = EmptyDir
    /\ output_folder = EmptyDir
    /\ renderPending = {}
    /\ renderStatus = "returned"
    /\ renderError = NoError

NmsStart ==
    /\ output_folder_path = EmptyDir
    /\ score_threshold \in ScoreThresholds
    /\ nmsPending = ListDir(folder_path)
    /\ nmsStatus = "running"
    /\ nmsError = NoError
    /\ indices = NoIndices
    /\ runs = 1

\* apply_nms_to_folder on a folder of one annotation file of well-formed lines.
InitNms ==
    /\ folder_path \in {[x \in {Img1} |-> f] : f \in SeqsUpTo(SuppressLines, MaxBoxes)}
    /\ nms_threshold \in NmsThresholds
    /\ NmsStart
    /\ MergeIdle
    /\ RenderIdle

SpecNms == InitNms /\ [][NextNms]_vars

\* Lines of the batch runs: a detection that survives every threshold, one
\* that every score threshold filters out, an empty line, a line without a
\* confidence, a line with a token that is no number.
KeptLine == BoxLine(0, 0, 0, 2, 2, 3)
FilteredLine == BoxLine(1, 0, 0, 2, 2, 1)
BlankLine == <<>>
FiveTokenLine == Join(<<StrInt(0), StrFloat(2), StrFloat(0), StrFloat(2), StrFloat(2)>>)
BadTokenLine ==
    Join(<<StrInt(0), Tok("bad", 0), StrFloat(0), StrFloat(2), StrFloat(2), StrFloat(3)>>)
BatchLines == {KeptLine, FilteredLine, BlankLine, FiveTokenLine, BadTokenLine}
BatchFiles == SeqsUpTo(BatchLines, MaxBatchLines)

\* The folders of the batch runs: each of img1.txt and img2.txt is there or
\* not, and so is a file that is no annotation file (img1.jpg, no lines).
BatchFolders ==
    {[x \in S |-> IF x = Img1 THEN f1 ELSE IF x = Img2 THEN f2 ELSE <<>>] :
        S \in SUBSET {Img1, Img2, Img1Jpg}, f1 \in BatchFiles, f2 \in BatchFiles}

\* apply_nms_to_folder, with the default nms_threshold, on a folder of
\* several files, malformed ones among them.
InitBatch ==
    /\ folder_path \in BatchFolders
    /\ nms_threshold = <<1, 2>>
    /\ NmsStart
    /\ MergeIdle
    /\ RenderIdle

SpecBatch == InitBatch /\ [][NextNms]_vars

NmsIdle ==
    /\ folder_path = EmptyDir
    /\ output_folder_path = EmptyDir
    /\ score_threshold = 1
    /\ nms_threshold = <<1, 2>>
    /\ nmsPending = {}
    /\ nmsStatus = "returned"
    /\ nmsError = NoError
    /\ indices = NoIndices
    /\ runs = 1

\* Lines of the merge runs: two detections as a detector writes them, one in
\* another hand, an empty line, a line without a confidence.
MergeLines == {KeptLine, OddLine, BlankLine, FiveTokenLine}
MergeFiles == SeqsUpTo(MergeLines, MaxMergeLines)
\* The other annotation file of the merge runs, where it is there.
OtherFile == <<BoxLine(2, 2, 0, 2, 2, 2)>>

\* The folders of the merge runs: img1.txt is there, with any of the files,
\* or not; img2.txt is there or not; so is img1.jpg.
MergeFolders ==
    {[x \in S |-> IF x = Img1 THEN f1 ELSE IF x = Img2 THEN OtherFile ELSE <<>>] :
        S \in SUBSET {Img1, Img2}, f1 \in MergeFiles}
        \cup {[x \in {Img1Jpg, Img2} |-> IF x = Img2 THEN OtherFile ELSE <<>>]}

\* change_conf: the default 0 (omitted), 0.0, and a value.
ChangeConfs == {StrInt(0), StrFloat(0), StrFloat(4)}

\* merge_files_from_folders has been called on two folders and a fresh
\* destination, and the first call of write_file_into_folder begins.
InitMerge ==
    /\ folder1_path \in MergeFolders
    /\ folder2_path \in MergeFolders
    /\ merged_folder_path = EmptyDir
    /\ change_conf \in ChangeConfs
    /\ mergePc = "pass1"
    /\ mergePending = ListDir(folder1_path)
    /\ NmsIdle
    /\ RenderIdle

SpecMerge == InitMerge /\ [][NextMerge]_vars

\* The image of the rendering runs: 8 rows, 12 columns, nothing drawn.
SampleImage == [shape |-> <<8, 12>>, drawn |-> <<>>]

\* apply_bboxes_to_images has been called: the bounding-box folder is any of
\* the batch folders, each of img1.jpg and img2.jpg is in the image folder or
\* not, the output folder is fresh.
InitRender ==
    /\ bbox_folder \in BatchFolders
    /\ image_folder \in {[x \in S |-> SampleImage] : S \in SUBSET {Img1Jpg, Img2Jpg}}
    /\ output_folder = EmptyDir
    /\ renderPending = ListDir(bbox_folder)
    /\ renderStatus = "running"
    /\ renderError = NoError
    /\ MergeIdle
    /\ NmsIdle

SpecRender == InitRender /\ [][NextRender]_vars

----------------------------------------------------------------------------
(* Suppression: what the claims say *)

\* The boxes parsed from an input file and the confidence read back from a
\* line of an output file.
InBoxes(e) == parse_boxes_from_txt(folder_path[e]).boxes
LineConfidence(line) == Split(line)[6].v
Range(f) == {f[i] : i \in DOMAIN f}

\* Two boxes as NMSBoxes is given them do not touch: nothing can suppress
\* either on account of the other.
Apart(a, b) == InterArea(Rect(<<a[2], a[3], a[4], a[5]>>), Rect(<<b[2], b[3], b[4], b[5]>>)) = 0
Isolated(boxes, i) == \A j \in 1..Len(boxes) : j # i => Apart(boxes[i], boxes[j])

\* C3 as stated: the score filter retains exactly the records with
\* confidence >= score_threshold: no record below the threshold is written,
\* and a record at or above it that no other box touches survives.
C3_FilterInclusive ==
    \A e \in DOMAIN indices :
        LET boxes == InBoxes(e) IN
        /\ e \in DOMAIN output_folder_path =>
              \A k \in 1..Len(output_folder_path[e]) :
                  LineConfidence(output_folder_path[e][k]) >= score_threshold
        /\ \A i \in 1..Len(boxes) :
              (boxes[i][6] >= score_threshold /\ Isolated(boxes, i))
                  => i \in Range(indices[e])

\* C3 amended: the score filter retains exactly the records with confidence
\* strictly above score_threshold: every record written has confidence >
\* score_threshold (a record at the threshold never survives), and a record
\* above it that no other box touches survives.
C3_FilterStrict ==
    \A e \in DOMAIN indices :
        LET boxes == InBoxes(e) IN
        /\ \A i \in Range(indices[e]) : boxes[i][6] > score_threshold
        /\ e \in DOMAIN output_folder_path =>
              \A k \in 1..Len(output_folder_path[e]) :
                  LineConfidence(output_folder_path[e][k]) > score_threshold
        /\ \A i \in 1..Len(boxes) :
              (boxes[i][6] > score_threshold /\ Isolated(boxes, i))
                  => i \in Range(indices[e])

\* C3, witness: a file was suppressed that holds a record below, one at and one above the
\* threshold, and only the one above was written.
C3_Witness ==
    /\ Img1 \in DOMAIN indices
    /\ Img1 \in DOMAIN output_folder_path
    /\ LET boxes == InBoxes(Img1) IN
       /\ Len(boxes) = 3
       /\ \E i, j, k \in 1..3 :
            /\ boxes[i][6] < score_threshold
            /\ boxes[j][6] = score_threshold
            /\ boxes[k][6] > score_threshold
       /\ Len(output_folder_path[Img1]) = 1

\* The corner box of a record, (x_center - width/2, y_center - height/2,
\* x_center + width/2, y_center + height/2), in half grid units.
CornerRect(box) ==
    [x |-> 2 * box[2] - box[4], y |-> 2 * box[3] - box[5], w |-> 2 * box[4], h |-> 2 * box[5]]
\* IoU(a, b) >= thr on corner boxes.
IoUAtLeast(a, b, thr) ==
    LET inter == InterArea(CornerRect(a), CornerRect(b))
        union == Area(CornerRect(a)) + Area(CornerRect(b)) - inter
    IN  inter * thr[2] >= thr[1] * union

\* C4 as stated: suppress is greedy NMS on the corner boxes: no two boxes of
\* the output have IoU >= iou_threshold (a pair at exactly the threshold
\* never both survive).
C4_NoOverlapAtThreshold ==
    \A e \in DOMAIN indices :
        LET boxes == InBoxes(e) IN
        \A i, j \in Range(indices[e]) :
            i # j => ~IoUAtLeast(boxes[i], boxes[j], nms_threshold)

\* C5: suppress is idempotent: apply_nms_to_folder applied, with the same
\* thresholds, to the folder it wrote does not raise and returns with every
\* file as it was: the same records in the same order.
C5_Idempotent ==
    runs >= 2 =>
        /\ nmsStatus # "raised"
        /\ \A e \in DOMAIN indices :
              /\ e \in DOMAIN output_folder_path
              /\ output_folder_path[e] = folder_path[e]
        /\ nmsStatus = "returned" => output_folder_path = folder_path

\* C5, witness: the second call has returned, over a file of two records or
\* more.
C5_Witness ==
    /\ runs >= 2
    /\ nmsStatus = "returned"
    /\ Img1 \in DOMAIN output_folder_path
    /\ Len(output_folder_path[Img1]) >= 2

\* C6: the records written are in the order the greedy loop emitted them:
\* non-increasing confidence, and among survivors of equal confidence the
\* one that comes first in the input comes first in the output.
C6_EmissionOrder ==
    \A e \in DOMAIN output_folder_path :
        LET out == output_folder_path[e]
            idx == indices[e]
            boxes == InBoxes(e)
        IN  /\ Len(out) = Len(idx)
            /\ \A k \in 1..Len(out) : out[k] = FormatBox(boxes[idx[k]])
            /\ \A k, l \in 1..Len(out) :
                  k < l =>
                    /\ LineConfidence(out[k]) >= LineConfidence(out[l])
                    /\ LineConfidence(out[k]) = LineConfidence(out[l]) => idx[k] < idx[l]

\* C6, witness: three records were written, not in input order, two of them of equal
\* confidence.
C6_Witness ==
    /\ Img1 \in DOMAIN output_folder_path
    /\ LET out == output_folder_path[Img1]
           idx == indices[Img1]
       IN  /\ Len(out) = 3
           /\ \E k \in 1..2 : idx[k] > idx[k + 1]
           /\ \E k \in 1..2 : LineConfidence(out[k]) = LineConfidence(out[k + 1])

\* The indices suppress leaves for a file: those NMSBoxes returns for its boxes.
Survivors(e) ==
    LET boxes == InBoxes(e) IN
    NMSBoxes(bounding_boxes(boxes), confidence_scores(boxes), score_threshold, nms_threshold)

\* C7: an output annotation file exists for an image if and only if suppress
\* ran on its annotation file and left at least one surviving box: an image
\* whose boxes were all filtered out, and an image with zero input
\* detections, have no output file (and neither has any other name).
C7_OutputIffSurvivors ==
    /\ DOMAIN output_folder_path \subseteq {e \in DOMAIN folder_path : EndsWithTxt(e)}
    /\ \A e \in DOMAIN folder_path :
          e \in DOMAIN output_folder_path <=>
              (e \in DOMAIN indices /\ Len(Survivors(e)) > 0)
    /\ \A e \in DOMAIN indices :
          (folder_path[e] = <<>>
             \/ \A i \in 1..Len(InBoxes(e)) : InBoxes(e)[i][6] <= score_threshold)
            => e \notin DOMAIN output_folder_path

\* C7, witness: the call returned over two images: all boxes of one were filtered out and
\* it has no output file, the other has one.
C7_Witness ==
    /\ nmsStatus = "returned"
    /\ runs = 1
    /\ {Img1, Img2} \subseteq DOMAIN indices
    /\ Len(folder_path[Img1]) > 0
    /\ Img1 \notin DOMAIN output_folder_path
    /\ Img2 \in DOMAIN output_folder_path

\* A file every line of which parse_boxes_from_txt reads.
Parses(file) == parse_boxes_from_txt(file).err = "none"

\* C9 as stated: a per-file failure does not abort a batch run: when one
\* annotation file is malformed, once the run is over every other annotation
\* file of the directory has been processed.
C9_BatchContinues ==
    nmsStatus \in {"returned", "raised"} =>
        \A e \in DOMAIN folder_path :
            (EndsWithTxt(e) /\ Parses(folder_path[e])) => e \in DOMAIN indices

\* A line as the format of the spec has it: empty (skipped), or five or six
\* tokens (the confidence is optional), each parseable as its numeric type.
SpecLineOk(line) ==
    LET values == Split(line) IN
    \/ Len(values) = 0
    \/ /\ Len(values) \in {5, 6}
       /\ IntOk(values[1])
       /\ \A i \in 2..Len(values) : FloatOk(values[i])

\* C10 as stated: decode skips blank lines and accepts a line of five tokens
\* as well as one of six: it fails only on a non-blank line of fewer than
\* five tokens or a token that does not parse.
C10_DecodeAccepts ==
    nmsStatus = "raised" =>
        ~SpecLineOk(folder_path[nmsError.file][nmsError.line])

----------------------------------------------------------------------------
(* Merging: what the claims say *)

\* The records of a file: the columns of its lines that are not blank.
Records(file) ==
    LET lines == SelectSeq(file, LAMBDA line : Len(Split(line)) > 0)
    IN  [i \in 1..Len(lines) |-> Split(lines[i])]

\* The first five fields of a record (class and geometry).
Geometry(record) == SubSeq(record, 1, 5)

\* C1 as stated: for files of the same base name in both folders and a fresh
\* destination, the merged file holds every primary record unchanged and in
\* order, followed by every secondary record in order; with an override
\* value given, the confidence field, and only it, of every secondary record
\* is that value; with none the secondary records are unchanged.
C1_MergeOverridesConfidenceOnly ==
    mergePc = "done" =>
        \A e \in DOMAIN folder1_path \cap DOMAIN folder2_path :
            EndsWithTxt(e) =>
                LET p == Records(folder1_path[e])
                    q == Records(folder2_path[e])
                    m == Records(merged_folder_path[e])
                IN  /\ Len(m) = Len(p) + Len(q)
                    /\ SubSeq(m, 1, Len(p)) = p
                    /\ \A k \in 1..Len(q) :
                          LET got == m[Len(p) + k] IN
                          IF Truthy(change_conf)
                          THEN /\ Geometry(got) = Geometry(q[k])
                               /\ Len(got) = 6
                               /\ got[6] = change_conf
                          ELSE got = q[k]

\* What write_file_into_folder makes of a record under change_conf: the
\* record with its last field replaced when change_conf is not zero.
Overridden(record, conf) ==
    IF Truthy(conf) THEN [record EXCEPT ![Len(record)] = conf] ELSE record

\* C2 as stated: for every base name present in only one of the two input
\* directories, the merged file holds exactly that file's records as they
\* are, whatever override_confidence is given.
C2_OnlyOneSideAsIs ==
    mergePc = "done" =>
        \A e \in (DOMAIN folder1_path \cup DOMAIN folder2_path)
                    \ (DOMAIN folder1_path \cap DOMAIN folder2_path) :
            EndsWithTxt(e) =>
                /\ e \in DOMAIN merged_folder_path
                /\ Records(merged_folder_path[e]) =
                      Records(IF e \in DOMAIN folder1_path
                              THEN folder1_path[e] ELSE folder2_path[e])

\* C2 amended: a file present only in the first directory passes through
\* with its records as they are, whatever override_confidence is given; a
\* file present only in the second directory has the last field of each of
\* its records replaced by override_confidence when one is given (not 0),
\* and passes through as it is only when none is.
C2_OnlyOneSide ==
    mergePc = "done" =>
        \A e \in (DOMAIN folder1_path \cup DOMAIN folder2_path)
                    \ (DOMAIN folder1_path \cap DOMAIN folder2_path) :
            EndsWithTxt(e) =>
                /\ e \in DOMAIN merged_folder_path
                /\ LET m == Records(merged_folder_path[e]) IN
                   IF e \in DOMAIN folder1_path
                   THEN m = Records(folder1_path[e])
                   ELSE LET q == Records(folder2_path[e]) IN
                        /\ Len(m) = Len(q)
                        /\ \A k \in 1..Len(q) : m[k] = Overridden(q[k], change_conf)

\* C2, witness: the merge is done with an override given; img1.txt, of two records, was
\* only in the first folder, img2.txt only in the second.
C2_Witness ==
    /\ mergePc = "done"
    /\ Truthy(change_conf)
    /\ Img1 \in DOMAIN folder1_path /\ Img1 \notin DOMAIN folder2_path
    /\ Img2 \in DOMAIN folder2_path /\ Img2 \notin DOMAIN folder1_path
    /\ Len(Records(folder1_path[Img1])) = 2
    /\ {Img1, Img2} \subseteq DOMAIN merged_folder_path

----------------------------------------------------------------------------
(* Rendering: what the claims say *)

\* C8 as stated: an annotation file whose .jpg does not exist produces no
\* output image and raises no error, and the remaining annotation files are
\* still rendered: once the run is over, every annotation file that parses
\* and has its image has been rendered, and the run raised only where a file
\* did not parse.
C8_MissingImageSkipped ==
    /\ renderStatus = "raised" => renderError.type \in {"IndexError", "ValueError"}
    /\ renderStatus \in {"returned", "raised"} =>
          \A e \in DOMAIN bbox_folder :
              (/\ EndsWithTxt(e)
               /\ Parses(bbox_folder[e])
               /\ Entry(e.base, "jpg") \in DOMAIN image_folder
               /\ \A x \in DOMAIN bbox_folder : EndsWithTxt(x) => Parses(bbox_folder[x]))
                  => Entry(e.base, "jpg") \in DOMAIN output_folder

=============================================================================
